---- MODULE Spec2Model ----
(***************************************************************************)
(* GPURent backend: the Redis job queue (backend/redis_queue.py) and the   *)
(* FastAPI application with its host and job-observer WebSocket channels  *)
(* (backend/main.py).                                                       *)
(*                                                                         *)
(* QueueSpec   RedisJobQueue under one client making arbitrary calls.      *)
(* WorkerSpec  enqueue_job and concurrent get_next_job callers.            *)
(* Spec        register_host, submit_job and the opening and closing of    *)
(*             host channels; FairSpec is Spec with weak fairness.         *)
(* ChanSpec    the host channels with their receive loops.                 *)
(* ObsSpec     one job-observer channel.                                   *)
(* StoreSpec   every RedisJobQueue operation, before and after the Redis    *)
(*             server goes away.                                           *)
(* RetrySpec   start_job, complete_job and fail_job reports being retried. *)
(* MgrSpec     the ConnectionManager with a caller of send_to_host.        *)
(* HeartSpec   the host channels while the clock advances, under weak      *)
(*             fairness.                                                   *)
(* OAuthSpec   GoogleOAuth: state parameters issued and callbacks checked. *)
(* JobApiSpec  hosts registered and connected, jobs submitted and read.    *)
(* RoleSpec    the account API: the account read, the active role switched.*)
(* SweepSpec   host status reports, expiring keys, cleanup_expired_jobs.   *)
(* InboxSpec   the host channels, each host's texts queued on arrival.     *)
(* HoldSpec    host h1 connecting and disconnecting while it holds jobs.   *)
(* FifoSpec    enqueue_job, get_next_job and get_job_status, with faults.  *)
(* ReportSpec  the queue without faults, with job keys expiring.           *)
(* RestartSpec host channels across a restart of the server process.       *)
(* ExpirySpec  job reports with faults after the job key has expired.      *)
(* TwoHostSpec two hosts of one owner connecting and disconnecting.        *)
(*                                                                         *)
(* Every store call of the queue may raise (parameter f of its actions).   *)
(* main.py imports get_job_queue but never calls it, so under Spec,        *)
(* ChanSpec and ObsSpec the queue's store is never written.                *)
(***************************************************************************)
EXTENDS Integers, Sequences, FiniteSets, TLC

VARIABLES
    \* ---- RedisJobQueue (redis_queue.py) ----
    connected,      \* redis_client is not None
    pending,        \* list gpu_jobs:pending, index 1 = head (left end)
    rec,            \* keys job:<id> -> stored job_data
    runningSet,     \* set gpu_jobs:running
    completedSet,   \* set gpu_jobs:completed
    wpc, wjob,      \* get_next_job callers: position and local job_data
    attempted,      \* job ids already handed to enqueue_job
    enqHist,        \* history: entries pushed on the pending list, in order
    popHist,        \* history: entries popped from the pending list, in order
    ncalls,         \* start_job / complete_job / fail_job calls made so far
    qret,           \* last value returned by a queue operation
    reachable,      \* the Redis server answers the client's calls
    hostKeys,       \* keys host:<id> -> stored status_data
    activeHosts,    \* set active_hosts
    qval,           \* data returned by the last host, status or statistics operation
    \* ---- durable rows (models.py) ----
    hosts,          \* Host rows by host_id
    jobs,           \* Job rows by job_id
    \* ---- ConnectionManager (main.py) ----
    host_connections, host_users,
    mret,           \* value returned by the last send_to_host call
    nsent,          \* send_to_host calls made so far
    \* ---- host channel handlers (websocket_host_endpoint) ----
    cpc,            \* handler position: new, open, closed, rejected
    chost, cuser,   \* host_id and authenticated user of an accepted channel
    csent,          \* messages the server sent on the channel
    crecv,          \* number of messages received on the channel
    cclose,         \* close reason sent by the server, if any
    \* ---- job observer handler (websocket_job_endpoint) ----
    opc,            \* handler position: new, logs, final, done, closed, rejected
    ojob, ouser,    \* job_id and authenticated user of an accepted observer
    ostatus,        \* job.status as loaded when the channel was opened
    osent,          \* messages the server sent to the observer
    oclose,         \* close reason sent by the server, if any
    \* ---- last HTTP response ----
    resp,
    \* ---- GoogleOAuth (google_auth.py) ----
    now,            \* int(time.time())
    nticks,         \* number of times the clock has advanced
    issued,         \* state parameters handed out by get_authorization_url
    ncallbacks,     \* get_user_info calls made so far
    netreqs,        \* requests posted to Google so far, by endpoint
    oret,           \* outcome of the last get_user_info call
    \* ---- texts a host has sent on its channel (websocket.receive_text) ----
    cin             \* per channel: queue = arrived and not yet received, hist = all arrived

qvars == <<connected, pending, rec, runningSet, completedSet, wpc, wjob,
           attempted, enqHist, popHist, ncalls, qret>>
hsvars == <<reachable, hostKeys, activeHosts, qval>>
dbvars == <<hosts, jobs>>
mgrvars == <<host_connections, host_users>>
mcallvars == <<mret, nsent>>
inboxvars == <<cin>>
chanvars == <<cpc, chost, cuser, csent, crecv, cclose>>
obsvars == <<opc, ojob, ouser, ostatus, osent, oclose>>
oauthvars == <<now, nticks, issued, ncallbacks, netreqs, oret>>
vars == <<qvars, hsvars, dbvars, mgrvars, mcallvars, inboxvars, chanvars, obsvars, resp, oauthvars>>

---------------------------------------------------------------------------
\* Bounds of the model
MaxJobs == 2        \* job ids offered to the queue's clients
MaxWorkers == 2     \* concurrent get_next_job callers
MaxUpdates == 2     \* start_job / complete_job / fail_job calls during a run
MaxChans == 2       \* host channels opened during a run
MaxMsgs == 2        \* messages received on the host channels during a run
MaxSubmits == 1     \* jobs submitted over HTTP during a run
MaxTicks == 2       \* advances of the clock during a run
MaxIssued == 2      \* OAuth state parameters issued during a run
MaxCallbacks == 1   \* OAuth callbacks handled during a run

None == "None"
JobIds == 1..MaxJobs
Workers == 1..MaxWorkers
HostIds == {"h1", "h2"}
Results == {"r1", "r2"}
Errors == {"e1"}

---------------------------------------------------------------------------
\* JobQueueStatus, redis_queue.py
JobQueueStatus == {"pending", "assigned", "running", "completed", "failed", "cancelled"}

\* job_data as enqueue_job stores it
EnqueueData_assigned(j) ==
    [job_id |-> j, status |-> "assigned", host_id |-> None, result |-> None,
     error_message |-> None]
EnqueueData(j) ==
    [job_id |-> j, status |-> "pending", host_id |-> None, result |-> None,
     error_message |-> None]

\* a caller's job_data before rpop has returned anything
NoJob == EnqueueData(0)

\* redis list and key primitives used by the queue
LPush_tail(list, x) == Append(list, x)
LPush(list, x) == <<x>> \o list

RPopValue(list) == list[Len(list)]

RPopRest_peek(list) == list
RPopRest(list) == SubSeq(list, 1, Len(list) - 1)

SetEx(store, key, val) ==
    [k \in DOMAIN store \cup {key} |-> IF k = key THEN val ELSE store[k]]

Put_keep(f, k, v) == [x \in DOMAIN f \cup {k} |-> IF x \in DOMAIN f THEN f[x] ELSE v]
Put(f, k, v) == [x \in DOMAIN f \cup {k} |-> IF x = k THEN v ELSE f[x]]
Drop(f, k) == [x \in DOMAIN f \ {k} |-> f[x]]

QRet(op, j, ok) == [op |-> op, job |-> j, ok |-> ok]

\* is_connected
is_connected == connected

QueueFrame == UNCHANGED <<hsvars, dbvars, mgrvars, mcallvars, inboxvars, chanvars, obsvars, resp, oauthvars>>

\* enqueue_job(job_data); f = the store call that raises (0: none, 1: lpush, 2: setex)
enqueue_job(j, f) ==
    /\ j = Cardinality(attempted) + 1
    /\ attempted' = attempted \cup {j}
    /\ LET pushed == is_connected /\ f # 1
           stored == is_connected /\ f = 0
       IN  /\ pending' = IF pushed THEN LPush(pending, EnqueueData(j)) ELSE pending
           /\ enqHist' = IF pushed THEN Append(enqHist, [job |-> j, ok |-> stored])
                                   ELSE enqHist
           /\ rec' = IF stored THEN SetEx(rec, j, EnqueueData(j)) ELSE rec
           /\ qret' = QRet("enqueue_job", j, stored)
    /\ UNCHANGED <<connected, runningSet, completedSet, wpc, wjob, popHist, ncalls>>
    /\ QueueFrame

\* get_next_job() by one caller at a time; f: 1 rpop raises, 2 setex raises
get_next_job(f) ==
    /\ \A w \in Workers : wpc[w] = "idle"
    /\ IF is_connected /\ f # 1 /\ Len(pending) > 0
       THEN LET popped == RPopValue(pending)
                job_data == [popped EXCEPT !.status = "assigned"]
            IN  /\ pending' = RPopRest(pending)
                /\ popHist' = Append(popHist, [job |-> popped.job_id, returned |-> f = 0])
                /\ rec' = IF f = 0 THEN SetEx(rec, popped.job_id, job_data) ELSE rec
                /\ qret' = IF f = 0 THEN QRet("get_next_job", popped.job_id, TRUE)
                                    ELSE QRet("get_next_job", 0, FALSE)
       ELSE /\ qret' = QRet("get_next_job", 0, FALSE)
            /\ UNCHANGED <<pending, popHist, rec>>
    /\ UNCHANGED <<connected, runningSet, completedSet, wpc, wjob, attempted, enqHist, ncalls>>
    /\ QueueFrame

\* the same get_next_job under concurrent callers, up to and including rpop;
\* f = 1: rpop raises
get_next_job_pop(w, f) ==
    /\ wpc[w] = "idle"
    /\ IF is_connected /\ f = 0 /\ Len(pending) > 0
       THEN LET job_data == RPopValue(pending)
            IN  /\ pending' = RPopRest(pending)
                /\ wjob' = [wjob EXCEPT ![w] =
                              [job_data EXCEPT !.status = "assigned"]]
                /\ wpc' = [wpc EXCEPT ![w] = "popped"]
                /\ popHist' = Append(popHist, [job |-> job_data.job_id, returned |-> FALSE])
                /\ UNCHANGED qret
       ELSE /\ qret' = QRet("get_next_job", 0, FALSE)
            /\ UNCHANGED <<pending, wjob, wpc, popHist>>
    /\ UNCHANGED <<connected, rec, runningSet, completedSet, attempted, enqHist, ncalls>>
    /\ QueueFrame

MarkReturned(hist, j) ==
    [i \in DOMAIN hist |->
        IF hist[i].job = j /\ \A k \in DOMAIN hist : k > i => hist[k].job # j
        THEN [hist[i] EXCEPT !.returned = TRUE] ELSE hist[i]]

\* get_next_job, from setex to the return; f = 1: setex raises
get_next_job_store(w, f) ==
    /\ wpc[w] = "popped"
    /\ wpc' = [wpc EXCEPT ![w] = "idle"]
    /\ wjob' = [wjob EXCEPT ![w] = NoJob]
    /\ IF f = 0
       THEN /\ rec' = SetEx(rec, wjob[w].job_id, wjob[w])
            /\ popHist' = MarkReturned(popHist, wjob[w].job_id)
            /\ qret' = QRet("get_next_job", wjob[w].job_id, TRUE)
       ELSE /\ qret' = QRet("get_next_job", 0, FALSE)
            /\ UNCHANGED <<rec, popHist>>
    /\ UNCHANGED <<connected, pending, runningSet, completedSet, attempted, enqHist, ncalls>>
    /\ QueueFrame

\* redis_client.get(job_key) followed by json.loads: the record, or nothing (NoJob) when
\* the key does not exist
GetRecord_default(j) == IF j \in DOMAIN rec THEN rec[j] ELSE EnqueueData(j)
GetRecord(j) == IF j \in DOMAIN rec THEN rec[j] ELSE NoJob

\* start_job(job_id, host_id); f = the store call that raises (1: get, 2: setex, 3: sadd)
start_job(j, h, f) ==
    /\ ncalls < MaxUpdates
    /\ ncalls' = ncalls + 1
    /\ LET found == is_connected /\ f # 1 /\ GetRecord(j) # NoJob
           job_data == [GetRecord(j) EXCEPT !.status = "running", !.host_id = h]
       IN  /\ rec' = IF found /\ f # 2 THEN SetEx(rec, j, job_data) ELSE rec
           /\ runningSet' = IF found /\ f = 0 THEN runningSet \cup {j} ELSE runningSet
           /\ qret' = QRet("start_job", j, found /\ f = 0)
    /\ UNCHANGED <<connected, pending, completedSet, wpc, wjob, attempted, enqHist, popHist>>
    /\ QueueFrame

\* complete_job(job_id, result_data); f: 1 get, 2 setex, 3 srem, 4 sadd
complete_job(j, r, f) ==
    /\ ncalls < MaxUpdates
    /\ ncalls' = ncalls + 1
    /\ LET found == is_connected /\ f # 1 /\ GetRecord(j) # NoJob
           job_data == [GetRecord(j) EXCEPT !.status = "completed", !.result = r]
       IN  /\ rec' = IF found /\ f # 2 THEN SetEx(rec, j, job_data) ELSE rec
           /\ runningSet' = IF found /\ f \in {0, 4} THEN runningSet \ {j} ELSE runningSet
           /\ completedSet' = IF found /\ f = 0 THEN completedSet \cup {j} ELSE completedSet
           /\ qret' = QRet("complete_job", j, found /\ f = 0)
    /\ UNCHANGED <<connected, pending, wpc, wjob, attempted, enqHist, popHist>>
    /\ QueueFrame

\* fail_job: the job_data it writes back
FailedData_append(job_data, e) ==
    [job_data EXCEPT !.status = "failed",
                     !.error_message = IF @ = None THEN e ELSE "repeated"]
FailedData(job_data, e) == [job_data EXCEPT !.status = "failed", !.error_message = e]

\* fail_job(job_id, error_message); f: 1 get, 2 setex, 3 srem
fail_job(j, e, f) ==
    /\ ncalls < MaxUpdates
    /\ ncalls' = ncalls + 1
    /\ LET found == is_connected /\ f # 1 /\ GetRecord(j) # NoJob
           job_data == FailedData(GetRecord(j), e)
       IN  /\ rec' = IF found /\ f # 2 THEN SetEx(rec, j, job_data) ELSE rec
           /\ runningSet' = IF found /\ f = 0 THEN runningSet \ {j} ELSE runningSet
           /\ qret' = QRet("fail_job", j, found /\ f = 0)
    /\ UNCHANGED <<connected, pending, completedSet, wpc, wjob, attempted, enqHist, popHist>>
    /\ QueueFrame

\* ---- status, host and statistics operations of RedisJobQueue ----
\* get_queue_stats' dict; rc: the value under redis_connected, "absent" without the key
Stats(err, p, r, c, a, rc) ==
    [error |-> err, pending_jobs |-> p, running_jobs |-> r, completed_jobs |-> c,
     active_hosts |-> a, redis_connected |-> rc]

\* what an operation hands back: a job record, a list of hosts, a count, a stats dict;
\* raised: an exception left the method instead
QVal(data, hostlist, count, stats) ==
    [raised |-> FALSE, data |-> data, hosts |-> hostlist, count |-> count, stats |-> stats]
NoVal == QVal(NoJob, {}, 0, Stats(FALSE, 0, 0, 0, 0, "absent"))

\* the except Exception clause of an operation: log, then return the failure value
OnError_reraise(failure) == [failure EXCEPT !.raised = TRUE]
OnError(failure) == failure

\* the seconds after which the key host:<id> expires
HostKeyTTL == 300

\* status_data as update_host_status stores it
StatusData(online) == [is_online |-> online]

\* the operations below leave the job keys alone
JobKeysFrame ==
    UNCHANGED <<connected, pending, rec, runningSet, completedSet, wpc, wjob,
                attempted, enqHist, popHist, ncalls, reachable>>
HostOpFrame == UNCHANGED <<dbvars, mgrvars, mcallvars, inboxvars, chanvars, obsvars, resp, oauthvars>>

\* get_job_status(job_id); f = 1: get raises
get_job_status(j, f) ==
    /\ IF ~is_connected THEN qval' = NoVal
       ELSE IF f # 0 THEN qval' = OnError(NoVal)
       ELSE qval' = [NoVal EXCEPT !.data = IF j \in DOMAIN rec THEN rec[j] ELSE NoJob]
    /\ qret' = QRet("get_job_status", j, is_connected /\ f = 0 /\ j \in DOMAIN rec)
    /\ UNCHANGED <<hostKeys, activeHosts>>
    /\ JobKeysFrame /\ HostOpFrame

\* update_host_status(host_id, status_data); f: 1 setex raises, 2 sadd / srem raises
update_host_status(h, online, f) ==
    /\ LET stored == is_connected /\ f # 1
           done == is_connected /\ f = 0
       IN  /\ hostKeys' = IF stored THEN SetEx(hostKeys, h, StatusData(online)) ELSE hostKeys
           /\ activeHosts' = IF ~done THEN activeHosts
                             ELSE IF online THEN activeHosts \cup {h}
                             ELSE activeHosts \ {h}
           /\ qret' = QRet("update_host_status", 0, done)
           /\ qval' = IF is_connected /\ f # 0 THEN OnError(NoVal) ELSE NoVal
    /\ JobKeysFrame /\ HostOpFrame

\* the key job:<id> reaching the end of the 86400 seconds every setex of it gives it
expire_job_key(j) ==
    /\ reachable
    /\ j \in DOMAIN rec
    /\ rec' = Drop(rec, j)
    /\ UNCHANGED <<connected, pending, runningSet, completedSet, wpc, wjob,
                   attempted, enqHist, popHist, ncalls, qret>>
    /\ UNCHANGED hsvars
    /\ HostOpFrame

\* the key host:<id> reaching the end of its 300 seconds
expire_host_key(h) ==
    /\ reachable
    /\ h \in DOMAIN hostKeys
    /\ hostKeys' = Drop(hostKeys, h)
    /\ UNCHANGED <<activeHosts, qval, qret>>
    /\ JobKeysFrame /\ HostOpFrame

\* get_available_hosts(); f = 1: smembers raises
get_available_hosts(f) ==
    /\ IF ~is_connected THEN qval' = NoVal
       ELSE IF f # 0 THEN qval' = OnError(NoVal)
       ELSE qval' = [NoVal EXCEPT !.hosts = activeHosts]
    /\ qret' = QRet("get_available_hosts", 0, is_connected /\ f = 0)
    /\ UNCHANGED <<hostKeys, activeHosts>>
    /\ JobKeysFrame /\ HostOpFrame

\* get_queue_stats(); f = 1: one of llen, scard raises
get_queue_stats(f) ==
    /\ IF ~is_connected THEN qval' = [NoVal EXCEPT !.stats = Stats(TRUE, 0, 0, 0, 0, "absent")]
       ELSE IF f # 0
       THEN qval' = OnError([NoVal EXCEPT !.stats = Stats(TRUE, 0, 0, 0, 0, "False")])
       ELSE qval' = [NoVal EXCEPT !.stats =
                        Stats(FALSE, Len(pending), Cardinality(runningSet),
                              Cardinality(completedSet), Cardinality(activeHosts), "True")]
    /\ qret' = QRet("get_queue_stats", 0, is_connected /\ f = 0)
    /\ UNCHANGED <<hostKeys, activeHosts>>
    /\ JobKeysFrame /\ HostOpFrame

\* the hosts of active_hosts whose key host:<id> is gone
ExpiredHosts == {h \in activeHosts : h \notin DOMAIN hostKeys}

\* cleanup_expired_jobs(); f: 1 smembers raises, 2 exists / srem raises on a later turn
\* of the loop, after the hosts of S have been removed
cleanup_expired_jobs(f, S) ==
    /\ S \subseteq ExpiredHosts
    /\ f = 0 => S = ExpiredHosts
    /\ f = 1 => S = {}
    /\ f = 2 => S # activeHosts
    /\ activeHosts' = IF is_connected THEN activeHosts \ S ELSE activeHosts
    /\ qval' = IF ~is_connected THEN NoVal
               ELSE IF f # 0 THEN OnError(NoVal)
               ELSE [NoVal EXCEPT !.count = Cardinality(S)]
    /\ qret' = QRet("cleanup_expired_jobs", 0, is_connected /\ f = 0)
    /\ UNCHANGED hostKeys
    /\ JobKeysFrame /\ HostOpFrame

\* the Redis server going away
store_down ==
    /\ reachable
    /\ reachable' = FALSE
    /\ UNCHANGED <<qvars, hostKeys, activeHosts, qval>>
    /\ HostOpFrame

\* the store call of an operation that raises: none while the server answers, the first
\* one while it does not
StoreFault == IF reachable THEN 0 ELSE 1

---------------------------------------------------------------------------
\* ---- durable rows: models.py ----
Users == {"u1", "u2", "u3"}
UserRole == [u \in Users |-> CASE u = "u1" -> "host" [] u = "u2" -> "renter" [] OTHER -> "admin"]
JobStatus == {"pending", "running", "completed", "failed", "cancelled"}
ChanIds == 1..MaxChans

\* Host(...) with the column defaults is_online=False, is_available=True
HostRow(owner, online, available) ==
    [owner_id |-> owner, is_online |-> online, is_available |-> available,
     last_heartbeat |-> 0]

\* Job(...) with the column default status=PENDING
JobRow(renter, h) == [renter_id |-> renter, host_id |-> h, status |-> "pending"]

\* The rows the process finds at start: host h1 of user u1, not connected.
HostsInit == \E a \in BOOLEAN : hosts = [h \in {"h1"} |-> HostRow("u1", FALSE, a)]

Resp(op, code, j, h) == [op |-> op, code |-> code, job |-> j, host |-> h]
Msg_copied(type, j) == [type |-> IF type = "job_ack" THEN "heartbeat_ack" ELSE type, job |-> j]
Msg(type, j) == [type |-> type, job |-> j]

\* ---- HTTP handlers: main.py ----
HttpFrame == UNCHANGED <<qvars, hsvars, mgrvars, mcallvars, inboxvars, chanvars, obsvars, oauthvars>>

\* require_host_role, auth.py
require_host_role_any(u) == UserRole[u] \in {"host", "admin", "renter"}
require_host_role(u) == UserRole[u] \in {"host", "admin"}

\* register_host: the query for a Host row with this host_id
ExistingHost_none(h) == FALSE
ExistingHost(h) == h \in DOMAIN hosts

\* register_host
register_host(u, h) ==
    /\ IF ~require_host_role(u)
       THEN /\ resp' = Resp("register_host", 403, 0, h)
            /\ UNCHANGED hosts
       ELSE IF ExistingHost(h)
       THEN /\ resp' = Resp("register_host", 400, 0, h)
            /\ UNCHANGED hosts
       ELSE /\ hosts' = Put(hosts, h, HostRow(u, FALSE, TRUE))
            /\ resp' = Resp("register_host", 200, 0, h)
    /\ UNCHANGED jobs
    /\ HttpFrame

\* submit_job: the query for the preferred host
FindPreferredHost_any(h) == h \in DOMAIN hosts
FindPreferredHost(h) ==
    h \in DOMAIN hosts /\ hosts[h].is_available /\ hosts[h].is_online

\* submit_job; h = None: no preferred host
submit_job(u, h) ==
    /\ IF h # None /\ ~FindPreferredHost(h)
       THEN /\ resp' = Resp("submit_job", 400, 0, h)
            /\ UNCHANGED jobs
       ELSE /\ Cardinality(DOMAIN jobs) < MaxSubmits
            /\ LET job_id == Cardinality(DOMAIN jobs) + 1
               IN  /\ jobs' = Put(jobs, job_id, JobRow(u, h))
                   /\ resp' = Resp("submit_job", 200, job_id, h)
    /\ UNCHANGED hosts
    /\ HttpFrame

\* GET /api/jobs/{job_id}: the Host query made for a caller of role host
JobHostOwned_any(u, j) == TRUE
JobHostOwned(u, j) ==
    \E h \in DOMAIN hosts : hosts[h].owner_id = u /\ h = jobs[j].host_id

\* GET /api/jobs/{job_id}: the access check on the Job row found
JobAccess(u, j) ==
    IF jobs[j].renter_id # u /\ UserRole[u] # "admin"
    THEN UserRole[u] = "host" /\ JobHostOwned(u, j)
    ELSE TRUE

JobResp(u, code, j) ==
    [op |-> "get_job_status", code |-> code, job |-> j, host |-> None, user |-> u]

\* GET /api/jobs/{job_id}, the handler get_job_status of main.py
api_get_job_status(u, j) ==
    /\ resp' = IF j \notin DOMAIN jobs THEN JobResp(u, 404, j)
               ELSE IF ~JobAccess(u, j) THEN JobResp(u, 403, j)
               ELSE JobResp(u, 200, j)
    /\ UNCHANGED <<hosts, jobs>>
    /\ HttpFrame

\* ---- the role switch: main.py, models.py, schemas.py ----
\* the mapped columns of User, models.py
UserColumns ==
    {"id", "email", "username", "first_name", "last_name", "profile_image_url",
     "oauth_provider", "role", "stripe_customer_id", "stripe_account_id",
     "created_at", "updated_at", "is_active"}

\* a User instance as get_current_user loads it in a request: its columns, of which the
\* handlers below read these
UserRow(u) == [c \in UserColumns \cap {"id", "role", "is_active"} |->
                 CASE c = "id" -> u [] c = "role" -> UserRole[u] [] OTHER -> TRUE]

\* ActiveRoleUpdate.validate_active_role, schemas.py
ActiveRoles == {"renter", "host"}

\* update_active_role: the validation of the requested role, with how it ends; reading an
\* attribute that is no column of User and was never set raises AttributeError
SwitchCheck_skip(obj, r) == "ok"
SwitchCheck(obj, r) ==
    IF r # "host" THEN "ok"
    ELSE IF "is_host" \notin DOMAIN obj THEN "AttributeError"
    ELSE IF ~obj.is_host THEN "HTTPException403"
    ELSE "ok"

\* update_active_role: the assignment current_user.active_role = ...; the attribute is
\* set on the instance of this request
SetActiveRole(obj, r) ==
    [a \in DOMAIN obj \cup {"active_role"} |-> IF a = "active_role" THEN r ELSE obj[a]]

\* UserResponse built from a User instance (from_attributes): a field the instance lacks
\* takes the default of the schema
UserResponse(obj) ==
    [id |-> obj.id, role |-> obj.role,
     is_renter |-> IF "is_renter" \in DOMAIN obj THEN obj.is_renter ELSE TRUE,
     is_host |-> IF "is_host" \in DOMAIN obj THEN obj.is_host ELSE FALSE,
     active_role |-> IF "active_role" \in DOMAIN obj THEN obj.active_role ELSE "renter"]
NoBody == [id |-> None, role |-> None, is_renter |-> FALSE, is_host |-> FALSE,
           active_role |-> None]

RoleResp(op, u, r, code, body) ==
    [op |-> op, code |-> code, job |-> 0, host |-> None, user |-> u,
     requested |-> r, body |-> body]

\* GET /api/auth/me
get_current_user_info(u) ==
    /\ resp' = RoleResp("get_current_user_info", u, None, 200, UserResponse(UserRow(u)))
    /\ UNCHANGED <<hosts, jobs>>
    /\ HttpFrame

\* PATCH /api/auth/me/active-role; the handler's except Exception answers 500 for
\* whatever the try block raised, the HTTPException 403 included
update_active_role(u, r) ==
    /\ resp' = IF r \notin ActiveRoles
               THEN RoleResp("update_active_role", u, r, 422, NoBody)
               ELSE IF SwitchCheck(UserRow(u), r) # "ok"
               THEN RoleResp("update_active_role", u, r, 500, NoBody)
               ELSE RoleResp("update_active_role", u, r, 200,
                             UserResponse(SetActiveRole(UserRow(u), r)))
    /\ UNCHANGED <<hosts, jobs>>
    /\ HttpFrame

---------------------------------------------------------------------------
\* ---- ConnectionManager and websocket_host_endpoint: main.py ----
Tokens == Users \cup {"none", "bad"}
ChanFrame == UNCHANGED <<qvars, hsvars, mcallvars, inboxvars, jobs, obsvars, resp, oauthvars>>

\* the ownership query of websocket_host_endpoint
OwnsHost_any(u, h) == h \in DOMAIN hosts
OwnsHost(u, h) == h \in DOMAIN hosts /\ hosts[h].owner_id = u

\* datetime.utcnow(): the clock's reading
Now(h) == now

\* ConnectionManager.connect_host: the Host rows after it
ConnectHostRows_owner(c, h, u) ==
    [x \in DOMAIN hosts |->
        IF hosts[x].owner_id = u
        THEN [hosts[x] EXCEPT !.is_online = TRUE, !.last_heartbeat = Now(x)]
        ELSE hosts[x]]
ConnectHostRows(c, h, u) ==
    IF h \in DOMAIN hosts /\ hosts[h].owner_id = u
    THEN [hosts EXCEPT ![h].is_online = TRUE, ![h].last_heartbeat = Now(h)]
    ELSE hosts

\* ConnectionManager.disconnect_host: the maps and the Host rows after it
DisconnectConns_keep(h) == host_connections
DisconnectConns(h) == IF h \in DOMAIN host_connections THEN Drop(host_connections, h)
                                                        ELSE host_connections
DisconnectUsers_keep(h) == host_users
DisconnectUsers(h) ==
    IF h \in DOMAIN host_connections /\ h \in DOMAIN host_users
    THEN Drop(host_users, h) ELSE host_users
DisconnectHostRows_online(h) == hosts
DisconnectHostRows(h) ==
    IF /\ h \in DOMAIN host_connections
       /\ h \in DOMAIN host_users
       /\ h \in DOMAIN hosts
       /\ hosts[h].owner_id = host_users[h]
    THEN [hosts EXCEPT ![h].is_online = FALSE]
    ELSE hosts

disconnect_host_connsonly(h) ==
    /\ host_connections' = DisconnectConns(h)
    /\ host_users' = host_users
    /\ hosts' = DisconnectHostRows(h)
disconnect_host(h) ==
    /\ host_connections' = DisconnectConns(h)
    /\ host_users' = DisconnectUsers(h)
    /\ hosts' = DisconnectHostRows(h)

\* websocket_host_endpoint up to the welcome message
open_host_channel(c, tok, h) ==
    /\ cpc[c] = "new"
    /\ \A k \in ChanIds : k < c => cpc[k] # "new"
    /\ UNCHANGED crecv
    /\ IF tok = "none"
       THEN /\ cpc' = [cpc EXCEPT ![c] = "rejected"]
            /\ cclose' = [cclose EXCEPT ![c] = "Authentication token required"]
            /\ UNCHANGED <<chost, cuser, csent, mgrvars, hosts>>
       ELSE IF tok = "bad"
       THEN /\ cpc' = [cpc EXCEPT ![c] = "rejected"]
            /\ cclose' = [cclose EXCEPT ![c] = "Invalid authentication credentials"]
            /\ UNCHANGED <<chost, cuser, csent, mgrvars, hosts>>
       ELSE IF ~OwnsHost(tok, h)
       THEN /\ cpc' = [cpc EXCEPT ![c] = "rejected"]
            /\ cclose' = [cclose EXCEPT ![c] = "Host not found or access denied"]
            /\ UNCHANGED <<chost, cuser, csent, mgrvars, hosts>>
       ELSE /\ cpc' = [cpc EXCEPT ![c] = "open"]
            /\ chost' = [chost EXCEPT ![c] = h]
            /\ cuser' = [cuser EXCEPT ![c] = tok]
            /\ host_connections' = Put(host_connections, h, c)
            /\ host_users' = Put(host_users, h, tok)
            /\ hosts' = ConnectHostRows(c, h, tok)
            /\ csent' = [csent EXCEPT ![c] = <<Msg("welcome", 0)>>]
            /\ UNCHANGED cclose
    /\ ChanFrame

HostMsgs ==
    {[type |-> t, job |-> 0, status |-> None] : t \in {"heartbeat", "other", "malformed"}}
    \cup {[type |-> "job_result", job |-> j, status |-> st] :
              j \in DOMAIN jobs, st \in {"completed", "failed"}}

RECURSIVE SumTo(_, _)
SumTo(f, n) == IF n = 0 THEN 0 ELSE f[n] + SumTo(f, n - 1)
TotalRecv == SumTo(crecv, MaxChans)

\* the branch of the receive loop that a received text takes: json.loads raising, one
\* of the two types the if / elif chain names, or falling through the chain
MessageBranch_strict(m) ==
    IF m.type \in {"heartbeat", "job_result"} THEN m.type ELSE "fault"
MessageBranch(m) ==
    IF m.type = "malformed" THEN "fault"
    ELSE IF m.type \in {"heartbeat", "job_result"} THEN m.type
    ELSE "ignored"

\* the body of the receive loop of websocket_host_endpoint for the text m
receive_turn(c, m) ==
    /\ crecv' = [crecv EXCEPT ![c] = @ + 1]
    /\ UNCHANGED <<chost, cuser, cclose>>
    /\ IF MessageBranch(m) = "fault"
       THEN /\ disconnect_host(chost[c])
            /\ cpc' = [cpc EXCEPT ![c] = "closed"]
            /\ UNCHANGED csent
       ELSE IF MessageBranch(m) = "heartbeat"
       THEN /\ hosts' = [hosts EXCEPT ![chost[c]].last_heartbeat = Now(chost[c])]
            /\ csent' = [csent EXCEPT ![c] = Append(@, Msg("heartbeat_ack", 0))]
            /\ UNCHANGED <<cpc, mgrvars>>
       ELSE IF MessageBranch(m) = "job_result"
       THEN /\ csent' = [csent EXCEPT ![c] = Append(@, Msg("job_ack", 0))]
            /\ UNCHANGED <<cpc, mgrvars, hosts>>
       ELSE UNCHANGED <<cpc, csent, mgrvars, hosts>>

\* one turn of the receive loop of websocket_host_endpoint
host_message(c, m) ==
    /\ cpc[c] = "open"
    /\ TotalRecv < MaxMsgs
    /\ receive_turn(c, m)
    /\ ChanFrame

\* ---- the same loop with the texts of a host queued by the transport ----
InboxFrame == UNCHANGED <<qvars, hsvars, mcallvars, jobs, obsvars, resp, oauthvars>>

RECURSIVE ArrivedTo(_)
ArrivedTo(n) == IF n = 0 THEN 0 ELSE Len(cin[n].hist) + ArrivedTo(n - 1)
TotalArrived == ArrivedTo(MaxChans)

\* a text from the host reaches the server on channel c and waits for receive_text
host_arrive(c, m) ==
    /\ cpc[c] = "open"
    /\ TotalArrived < MaxMsgs
    /\ cin' = [cin EXCEPT ![c] = [queue |-> Append(@.queue, m), hist |-> Append(@.hist, m)]]
    /\ UNCHANGED <<chanvars, mgrvars, hosts>>
    /\ InboxFrame

\* websocket.receive_text(): the text that has waited longest
NextInbound_newest(q) == q[Len(q)]
NextInbound(q) == Head(q)

\* one turn of the receive loop: receive_text, then the handling of that text up to and
\* including the awaited send of its reply
host_receive(c) ==
    /\ cpc[c] = "open"
    /\ cin[c].queue # << >>
    /\ receive_turn(c, NextInbound(cin[c].queue))
    /\ cin' = [cin EXCEPT ![c].queue = Tail(@)]
    /\ InboxFrame

\* WebSocketDisconnect raised by receive_text
host_disconnect(c) ==
    /\ cpc[c] = "open"
    /\ cpc' = [cpc EXCEPT ![c] = "closed"]
    /\ disconnect_host(chost[c])
    /\ UNCHANGED <<chost, cuser, csent, crecv, cclose>>
    /\ ChanFrame

\* the server process ending without its handlers running (killed) and a new one
\* starting: manager = ConnectionManager() is built anew and lifespan touches no row, so
\* the Host rows are what the old process committed
process_restart ==
    /\ \E c \in ChanIds : cpc[c] # "new"
    /\ host_connections' = << >>
    /\ host_users' = << >>
    /\ cpc' = [c \in ChanIds |-> "new"]
    /\ chost' = [c \in ChanIds |-> None]
    /\ cuser' = [c \in ChanIds |-> None]
    /\ csent' = [c \in ChanIds |-> << >>]
    /\ crecv' = [c \in ChanIds |-> 0]
    /\ cclose' = [c \in ChanIds |-> None]
    /\ UNCHANGED hosts
    /\ ChanFrame

\* ConnectionManager.send_to_host: the messages on host h's channel after it
send_to_host(h, m) ==
    IF h \in DOMAIN host_connections
    THEN [csent EXCEPT ![host_connections[h]] = Append(@, m)]
    ELSE csent

\* the value a call of send_to_host evaluates to: the method has no return statement
send_to_host_ret(h) == None

\* a caller awaiting manager.send_to_host(host_id, message)
call_send_to_host(h, m) ==
    /\ nsent < MaxMsgs
    /\ nsent' = nsent + 1
    /\ csent' = send_to_host(h, m)
    /\ mret' = [host |-> h, val |-> send_to_host_ret(h)]
    /\ UNCHANGED <<cpc, chost, cuser, crecv, cclose, mgrvars, hosts>>
    /\ UNCHANGED <<qvars, hsvars, inboxvars, jobs, obsvars, resp, oauthvars>>

---------------------------------------------------------------------------
\* ---- websocket_job_endpoint: main.py ----
\* len(demo_logs)
NumDemoLogs == 7

ObsStatusMsg(j, st) == [type |-> "status", job |-> j, status |-> st, log |-> 0]
ObsLogMsg(j, i) == [type |-> "log", job |-> j, status |-> None, log |-> i]
ObsFrame == UNCHANGED <<qvars, hsvars, dbvars, mgrvars, mcallvars, inboxvars, chanvars, resp, oauthvars>>

\* the access check of websocket_job_endpoint
CanObserve_any(u, j) == j \in DOMAIN jobs
CanObserve(u, j) ==
    j \in DOMAIN jobs /\ (jobs[j].renter_id = u \/ UserRole[u] = "admin")

LogsSent == Cardinality({i \in DOMAIN osent : osent[i].type = "log"})

\* the handler's position after sending log number i
AfterLog_short(i) == IF i >= NumDemoLogs - 1 THEN "final" ELSE "logs"
AfterLog(i) == IF i >= NumDemoLogs THEN "final" ELSE "logs"

\* websocket_job_endpoint up to the initial status message
obs_open(tok, j) ==
    /\ opc = "new"
    /\ IF tok = "none"
       THEN /\ opc' = "rejected"
            /\ oclose' = "Authentication token required"
            /\ UNCHANGED <<ojob, ouser, ostatus, osent>>
       ELSE IF tok = "bad"
       THEN /\ opc' = "rejected"
            /\ oclose' = "Invalid authentication credentials"
            /\ UNCHANGED <<ojob, ouser, ostatus, osent>>
       ELSE IF ~CanObserve(tok, j)
       THEN /\ opc' = "rejected"
            /\ oclose' = "Job not found or access denied"
            /\ UNCHANGED <<ojob, ouser, ostatus, osent>>
       ELSE /\ ojob' = j
            /\ ouser' = tok
            /\ ostatus' = jobs[j].status
            /\ osent' = <<ObsStatusMsg(j, jobs[j].status)>>
            /\ opc' = IF jobs[j].status = "running" THEN "logs" ELSE "done"
            /\ UNCHANGED oclose
    /\ ObsFrame

\* one turn of the demo_logs loop: sleep, then send the next log
obs_log ==
    /\ opc = "logs"
    /\ osent' = Append(osent, ObsLogMsg(ojob, LogsSent + 1))
    /\ opc' = AfterLog(LogsSent + 1)
    /\ UNCHANGED <<ojob, ouser, ostatus, oclose>>
    /\ ObsFrame

\* the completion status sent after the loop
obs_final ==
    /\ opc = "final"
    /\ osent' = Append(osent, ObsStatusMsg(ojob, "completed"))
    /\ opc' = "done"
    /\ UNCHANGED <<ojob, ouser, ostatus, oclose>>
    /\ ObsFrame

\* WebSocketDisconnect while the handler is streaming
obs_disconnect ==
    /\ opc \in {"logs", "final"}
    /\ opc' = "closed"
    /\ UNCHANGED <<ojob, ouser, ostatus, osent, oclose>>
    /\ ObsFrame

---------------------------------------------------------------------------
\* ---- GoogleOAuth: google_auth.py ----
\* the age in seconds beyond which _verify_oauth_state rejects a state
StateMaxAge == 600

OAuthFrame == UNCHANGED <<qvars, hsvars, dbvars, mgrvars, mcallvars, inboxvars, chanvars, obsvars, resp>>

\* timestamp_str: its characters (digits or not) and the value int() gives it
TsStr(digits, value) == [digits |-> digits, value |-> value]

\* hmac.new(key, f"{nonce}:{timestamp_str}", sha256).hexdigest(): one digest for each
\* key and signed text, different inputs giving different digests
Hmac(key, nonce, ts) == [key |-> key, nonce |-> nonce, ts |-> ts]

\* a state parameter by the parts state.split(':') gives; parts = 0: the empty string
StateParam(parts, nonce, ts, sig) == [parts |-> parts, nonce |-> nonce, ts |-> ts, sig |-> sig]
NoState == StateParam(0, 0, TsStr(FALSE, 0), Hmac("none", 0, TsStr(FALSE, 0)))

\* get_authorization_url: the state it signs
NewState(nonce) ==
    StateParam(3, nonce, TsStr(TRUE, now), Hmac("SECRET_KEY", nonce, TsStr(TRUE, now)))

get_authorization_url ==
    /\ Cardinality(issued) < MaxIssued
    /\ issued' = issued \cup {NewState(Cardinality(issued) + 1)}
    /\ UNCHANGED <<now, nticks, ncallbacks, netreqs, oret>>
    /\ OAuthFrame

\* time passing between two requests
tick(d) ==
    /\ nticks < MaxTicks
    /\ nticks' = nticks + 1
    /\ now' = now + d
    /\ UNCHANGED <<issued, ncallbacks, netreqs, oret>>
    /\ OAuthFrame

\* the state parameters a callback can carry: none, an issued one, or one put together
\* from the parts of issued ones, the current time and digests made without SECRET_KEY
CallbackStates ==
    LET nonces == {0} \cup {s.nonce : s \in issued}
        stamps == {TsStr(FALSE, 0), TsStr(TRUE, now)} \cup {s.ts : s \in issued}
        sigs(n, t) == {s.sig : s \in issued} \cup {Hmac("other", n, t)}
    IN  {NoState} \cup issued
        \cup {[NoState EXCEPT !.parts = k] : k \in {2, 4}}
        \cup UNION {{StateParam(3, n, t, g) : g \in sigs(n, t)} : n \in nonces, t \in stamps}

\* _verify_oauth_state: the checks in the order of the code; "ok" when none raises
StateExpired(st) == now - st.ts.value > StateMaxAge

SignatureOk_anykey(st) == st.sig.nonce = st.nonce /\ st.sig.ts = st.ts
SignatureOk(st) == st.sig = Hmac("SECRET_KEY", st.nonce, st.ts)

_verify_oauth_state(st) ==
    IF st.parts # 3 THEN "Invalid state format"
    ELSE IF ~st.ts.digits THEN "invalid literal for int()"
    ELSE IF StateExpired(st) THEN "State expired"
    ELSE IF ~SignatureOk(st) THEN "Invalid state signature"
    ELSE "ok"

ORet(st, code, detail) == [state |-> st, code |-> code, detail |-> detail]

\* what Google answers: to the token request and, if that gave an access token, to the
\* userinfo request
GoogleAnswers ==
    {[token |-> t, userinfo |-> "none"] : t \in {"raises", "not 200", "no access_token"}}
    \cup {[token |-> "access_token", userinfo |-> u] : u \in {"raises", "not 200", "200"}}

\* get_user_info(authorization_code, state); g: Google's answers
get_user_info(st, g) ==
    /\ ncallbacks < MaxCallbacks
    /\ ncallbacks' = ncallbacks + 1
    /\ UNCHANGED <<now, nticks, issued>>
    /\ IF st.parts = 0
       THEN /\ oret' = ORet(st, 400, "Missing state parameter")
            /\ UNCHANGED netreqs
       ELSE IF _verify_oauth_state(st) # "ok"
       THEN /\ oret' = ORet(st, 400, _verify_oauth_state(st))
            /\ UNCHANGED netreqs
       ELSE IF g.token # "access_token"
       THEN /\ netreqs' = [netreqs EXCEPT !.token = @ + 1]
            /\ oret' = ORet(st, 400, IF g.token = "raises" THEN "OAuth authentication failed"
                                     ELSE IF g.token = "not 200" THEN "Token exchange failed"
                                     ELSE "No access token received from Google")
       ELSE /\ netreqs' = [netreqs EXCEPT !.token = @ + 1, !.userinfo = @ + 1]
            /\ oret' = IF g.userinfo = "200" THEN ORet(st, 200, "ok")
                       ELSE ORet(st, 400,
                                 IF g.userinfo = "raises" THEN "OAuth authentication failed"
                                 ELSE "Failed to fetch user information from Google")
    /\ OAuthFrame

---------------------------------------------------------------------------
QueueInit ==
    /\ pending = << >>
    /\ rec = << >>
    /\ runningSet = {}
    /\ completedSet = {}
    /\ wpc = [w \in Workers |-> "idle"]
    /\ wjob = [w \in Workers |-> NoJob]
    /\ ncalls = 0
    /\ attempted = {}
    /\ enqHist = << >>
    /\ popHist = << >>
    /\ qret = QRet("none", 0, FALSE)
    /\ reachable = connected
    /\ hostKeys = << >>
    /\ activeHosts = {}
    /\ qval = NoVal

\* ConnectionManager.__init__ and no handler started
ServerInit ==
    /\ host_connections = << >>
    /\ host_users = << >>
    /\ cpc = [c \in ChanIds |-> "new"]
    /\ chost = [c \in ChanIds |-> None]
    /\ cuser = [c \in ChanIds |-> None]
    /\ csent = [c \in ChanIds |-> << >>]
    /\ crecv = [c \in ChanIds |-> 0]
    /\ cclose = [c \in ChanIds |-> None]
    /\ opc = "new" /\ ojob = 0 /\ ouser = None /\ ostatus = None
    /\ osent = << >> /\ oclose = None
    /\ resp = Resp("none", 0, 0, None)
    /\ mret = [host |-> None, val |-> None] /\ nsent = 0
    /\ cin = [c \in ChanIds |-> [queue |-> << >>, hist |-> << >>]]
    /\ now = 0 /\ nticks = 0 /\ issued = {} /\ ncallbacks = 0
    /\ netreqs = [token |-> 0, userinfo |-> 0]
    /\ oret = ORet(NoState, 0, "none")

\* the queue library under its clients: the store reachable at construction or not
Init ==
    /\ connected \in BOOLEAN
    /\ QueueInit /\ ServerInit
    /\ hosts = << >>
    /\ jobs = << >>

\* the application started with the store reachable and no Job rows
AppInit ==
    /\ connected = TRUE
    /\ QueueInit /\ ServerInit /\ HostsInit
    /\ jobs = << >>

\* the application started with one Job row of renter u2 on host h1, in any JobStatus
SeededInit ==
    /\ connected = TRUE
    /\ QueueInit /\ ServerInit /\ HostsInit
    /\ \E st \in JobStatus :
          jobs = [j \in {0} |-> [JobRow("u2", "h1") EXCEPT !.status = st]]

QueueNext ==
    \/ \E j \in JobIds, f \in 0..2 : enqueue_job(j, f)
    \/ \E f \in 0..2 : get_next_job(f)
    \/ \E j \in JobIds, h \in HostIds, f \in 0..3 : start_job(j, h, f)
    \/ \E j \in JobIds, r \in Results, f \in 0..4 : complete_job(j, r, f)
    \/ \E j \in JobIds, e \in Errors, f \in 0..3 : fail_job(j, e, f)

QueueSpec == Init /\ [][QueueNext]_vars

Next ==
    \/ \E u \in Users, h \in HostIds : register_host(u, h)
    \/ \E u \in Users, h \in HostIds \cup {None} : submit_job(u, h)
    \/ \E c \in ChanIds, tok \in Tokens, h \in HostIds : open_host_channel(c, tok, h)
    \/ \E c \in ChanIds : host_disconnect(c)

Spec == AppInit /\ [][Next]_vars

\* the host channels with their receive loops
ChanNext ==
    \/ \E c \in ChanIds, tok \in Tokens, h \in HostIds : open_host_channel(c, tok, h)
    \/ \E c \in ChanIds, m \in HostMsgs : host_message(c, m)
    \/ \E c \in ChanIds : host_disconnect(c)

ChanSpec == SeededInit /\ [][ChanNext]_vars

\* the application, its handlers run for as long as one of them can take a step
FairSpec == AppInit /\ [][Next]_vars /\ WF_vars(Next)

\* one job observer channel
ObsNext ==
    \/ \E tok \in Tokens, j \in 0..1 : obs_open(tok, j)
    \/ obs_log
    \/ obs_final
    \/ obs_disconnect

ObsSpec == SeededInit /\ [][ObsNext]_vars

\* concurrent get_next_job callers against one pending list
WorkerNext ==
    \/ \E j \in JobIds, f \in 0..2 : enqueue_job(j, f)
    \/ \E w \in Workers, f \in 0..1 : get_next_job_pop(w, f)
    \/ \E w \in Workers, f \in 0..1 : get_next_job_store(w, f)

WorkerSpec == Init /\ [][WorkerNext]_vars

\* the queue library up to and after the moment the Redis server goes away: a store
\* call raises exactly when the server does not answer
StoreNext ==
    \/ store_down
    \/ \E j \in JobIds : enqueue_job(j, StoreFault)
    \/ get_next_job(StoreFault)
    \/ \E j \in JobIds : start_job(j, "h1", StoreFault)
    \/ \E j \in JobIds : complete_job(j, "r1", StoreFault)
    \/ \E j \in JobIds : fail_job(j, "e1", StoreFault)
    \/ \E j \in JobIds : get_job_status(j, StoreFault)
    \/ \E online \in BOOLEAN : update_host_status("h1", online, StoreFault)
    \/ expire_host_key("h1")
    \/ get_available_hosts(StoreFault)
    \/ get_queue_stats(StoreFault)
    \/ cleanup_expired_jobs(StoreFault, IF reachable THEN ExpiredHosts ELSE {})

StoreSpec == Init /\ [][StoreNext]_vars

\* a worker reporting on jobs it was given, any store call of a report possibly raising
RetryNext ==
    \/ \E j \in JobIds : enqueue_job(j, 0)
    \/ \E j \in JobIds, h \in HostIds, f \in 0..3 : start_job(j, h, f)
    \/ \E j \in JobIds, r \in Results, f \in 0..4 : complete_job(j, r, f)
    \/ \E j \in JobIds, e \in Errors, f \in 0..3 : fail_job(j, e, f)

RetrySpec == Init /\ [][RetryNext]_vars

\* the ConnectionManager under a caller that pushes job messages to hosts
MgrNext ==
    \/ \E c \in ChanIds, tok \in Tokens, h \in HostIds : open_host_channel(c, tok, h)
    \/ \E c \in ChanIds : host_disconnect(c)
    \/ \E h \in HostIds, j \in JobIds : call_send_to_host(h, Msg("job", j))

MgrSpec == AppInit /\ [][MgrNext]_vars

\* the host channels while time passes, with host registrations over HTTP and the sweep
\* of expired hosts going on; every handler that can take a step eventually takes one
HeartNext ==
    \/ \E c \in ChanIds, tok \in Tokens, h \in HostIds : open_host_channel(c, tok, h)
    \/ \E c \in ChanIds, m \in HostMsgs : host_message(c, m)
    \/ \E c \in ChanIds : host_disconnect(c)
    \/ \E u \in Users, h \in HostIds : register_host(u, h)
    \/ \E d \in {1, HostKeyTTL} : tick(d)
    \/ cleanup_expired_jobs(StoreFault, ExpiredHosts)

HeartSpec == AppInit /\ [][HeartNext]_vars /\ WF_vars(HeartNext)

\* the OAuth login: states issued, time passing, callbacks
OAuthNext ==
    \/ get_authorization_url
    \/ \E d \in {1, StateMaxAge} : tick(d)
    \/ \E st \in CallbackStates, g \in GoogleAnswers : get_user_info(st, g)

OAuthSpec == AppInit /\ [][OAuthNext]_vars

\* the HTTP API of jobs: hosts registered and connected, jobs submitted and read back
JobApiNext ==
    \/ \E u \in Users, h \in HostIds : register_host(u, h)
    \/ \E c \in ChanIds, tok \in Tokens, h \in HostIds : open_host_channel(c, tok, h)
    \/ \E u \in Users, h \in HostIds \cup {None} : submit_job(u, h)
    \/ \E u \in Users, j \in 1..(MaxSubmits + 1) : api_get_job_status(u, j)

\* the host channels with the texts of each host queued in arrival order
InboxNext ==
    \/ \E c \in ChanIds, tok \in Tokens, h \in HostIds : open_host_channel(c, tok, h)
    \/ \E c \in ChanIds, m \in HostMsgs : host_arrive(c, m)
    \/ \E c \in ChanIds : host_receive(c)
    \/ \E c \in ChanIds : host_disconnect(c)

InboxSpec == SeededInit /\ [][InboxNext]_vars

\* host h1 connecting and disconnecting (its owner u1, or u2 trying) while jobs are queued
\* and started on it, and a caller pushes a job message to it
HoldNext ==
    \/ \E j \in JobIds : enqueue_job(j, 0)
    \/ \E j \in JobIds : start_job(j, "h1", 0)
    \/ \E c \in ChanIds, tok \in {"u1", "u2"} : open_host_channel(c, tok, "h1")
    \/ \E c \in ChanIds : host_disconnect(c)
    \/ call_send_to_host("h1", Msg("job", 1))

\* the application started with the Job row of host h1 in status running
HoldInit == SeededInit /\ jobs[0].status = "running"

HoldSpec == HoldInit /\ [][HoldNext]_vars

\* one client enqueueing jobs, pulling them and asking for their status, any store call
\* possibly raising
FifoNext ==
    \/ \E j \in JobIds, f \in 0..2 : enqueue_job(j, f)
    \/ \E f \in 0..2 : get_next_job(f)
    \/ \E j \in JobIds, f \in 0..1 : get_job_status(j, f)

FifoSpec == Init /\ [][FifoNext]_vars

\* one client enqueueing and pulling jobs and reporting on them, no store call raising,
\* while job keys may expire
ReportNext ==
    \/ \E j \in JobIds : enqueue_job(j, 0)
    \/ get_next_job(0)
    \/ \E j \in JobIds, h \in HostIds : start_job(j, h, 0)
    \/ \E j \in JobIds, r \in Results : complete_job(j, r, 0)
    \/ \E j \in JobIds, e \in Errors : fail_job(j, e, 0)
    \/ \E j \in JobIds : expire_job_key(j)

ReportSpec == Init /\ [][ReportNext]_vars

\* host registrations and host channels over the life of more than one server process
RestartNext ==
    \/ \E u \in Users, h \in HostIds : register_host(u, h)
    \/ \E c \in ChanIds, tok \in Tokens, h \in HostIds : open_host_channel(c, tok, h)
    \/ \E c \in ChanIds : host_disconnect(c)
    \/ process_restart

RestartSpec == AppInit /\ [][RestartNext]_vars

\* a worker reporting on jobs whose keys may have expired or that were never enqueued,
\* any store call of a report possibly raising
ExpiryNext ==
    \/ \E j \in JobIds : enqueue_job(j, 0)
    \/ \E j \in JobIds, h \in HostIds, f \in 0..3 : start_job(j, h, f)
    \/ \E j \in JobIds, r \in Results, f \in 0..4 : complete_job(j, r, f)
    \/ \E j \in JobIds, e \in Errors, f \in 0..3 : fail_job(j, e, f)
    \/ \E j \in JobIds : expire_job_key(j)

ExpirySpec == Init /\ [][ExpiryNext]_vars

\* user u1 with the hosts h1 and h2 (u2 owning none), their channels and receive loops,
\* while time passes
TwoHostNext ==
    \/ register_host("u1", "h2")
    \/ \E c \in ChanIds, tok \in {"u1", "u2"}, h \in HostIds : open_host_channel(c, tok, h)
    \/ \E c \in ChanIds, m \in HostMsgs : host_message(c, m)
    \/ \E c \in ChanIds : host_disconnect(c)
    \/ tick(1)

TwoHostSpec == AppInit /\ [][TwoHostNext]_vars

JobApiSpec == AppInit /\ [][JobApiNext]_vars

\* the account API beside the host and job API: users register hosts, submit jobs, read
\* their account and switch their active role
RoleNext ==
    \/ \E u \in Users, h \in HostIds : register_host(u, h)
    \/ \E u \in Users : get_current_user_info(u)
    \/ \E u \in Users, r \in {"renter", "host", "admin"} : update_active_role(u, r)
    \/ \E u \in Users, h \in HostIds \cup {None} : submit_job(u, h)

RoleSpec == AppInit /\ [][RoleNext]_vars

\* host status reports, their keys expiring and the sweep of expired hosts, beside jobs
\* being enqueued; a store call of the sweep may raise
SweepNext ==
    \/ \E j \in JobIds : enqueue_job(j, 0)
    \/ \E h \in HostIds, online \in BOOLEAN : update_host_status(h, online, 0)
    \/ \E h \in HostIds : expire_host_key(h)
    \/ get_available_hosts(0)
    \/ \E f \in 0..2, S \in SUBSET HostIds : cleanup_expired_jobs(f, S)

SweepSpec == Init /\ [][SweepNext]_vars

---------------------------------------------------------------------------
\* ---- properties ----

Terminal == {"completed", "failed", "cancelled"}
Rank(st) == CASE st = "pending" -> 0 [] st = "assigned" -> 1 [] st = "running" -> 2
              [] OTHER -> 3
Forward(a, b) == a = b \/ (a \notin Terminal /\ Rank(a) < Rank(b))

\* C1: over any sequence of queue calls, the status in a job's queue record only moves
\* forward along pending -> assigned -> running -> {completed, failed, cancelled}: it
\* never moves backwards and never leaves a terminal status for another status.
C1_StatusForward ==
    [][\A j \in DOMAIN rec \cap DOMAIN rec' : Forward(rec[j].status, rec'[j].status)]_vars

NewestOpen(c) ==
    /\ cpc[c] = "open"
    /\ \A k \in ChanIds : (k > c /\ cpc[k] = "open") => chost[k] # chost[c]

\* C2: once the handler of an older channel of a host has run its disconnect, the newest
\* open channel of that host is still the one registered in host_connections and the
\* host is still online.
C2_StaleDisconnect ==
    \A c1, c2 \in ChanIds :
        (c1 < c2 /\ cpc[c1] = "closed" /\ chost[c1] = chost[c2] /\ NewestOpen(c2))
        => /\ chost[c2] \in DOMAIN host_connections
           /\ host_connections[chost[c2]] = c2
           /\ hosts[chost[c2]].is_online

EnqueuedOk(j) == \E i \in DOMAIN enqHist : enqHist[i].job = j /\ enqHist[i].ok
EnqPos(j) == CHOOSE i \in DOMAIN enqHist : enqHist[i].job = j

\* C3: jobs enqueued successfully are returned by successive get_next_job calls in the
\* order in which they were enqueued.
C3_DequeueFIFO ==
    \A a, b \in DOMAIN popHist :
        (/\ a < b
         /\ popHist[a].returned /\ popHist[b].returned
         /\ EnqueuedOk(popHist[a].job) /\ EnqueuedOk(popHist[b].job))
        => EnqPos(popHist[a].job) < EnqPos(popHist[b].job)

C3_Witness ==
    \E a, b \in DOMAIN popHist :
        /\ a < b
        /\ popHist[a].returned /\ popHist[b].returned
        /\ EnqueuedOk(popHist[a].job) /\ EnqueuedOk(popHist[b].job)

\* C4: under concurrent get_next_job callers no entry of the pending list is popped
\* twice, and no two callers hold the same job.
C4_AtomicPop ==
    /\ \A a, b \in DOMAIN popHist : a # b => popHist[a].job # popHist[b].job
    /\ \A w1, w2 \in Workers :
          (w1 # w2 /\ wpc[w1] = "popped" /\ wpc[w2] = "popped")
          => wjob[w1].job_id # wjob[w2].job_id

C4_Witness ==
    \E w1, w2 \in Workers : w1 # w2 /\ wpc[w1] = "popped" /\ wpc[w2] = "popped"

DispatchCount(j) ==
    Cardinality({<<c, i>> \in ChanIds \X (1..(1 + MaxMsgs)) :
                    i \in DOMAIN csent[c] /\ csent[c][i] = Msg("job", j)})
HostReady == \E h \in DOMAIN host_connections : hosts[h].is_online /\ hosts[h].is_available

\* C5: a job submitted with no preferred host while a host is connected, online and
\* available eventually has queue status running with exactly one dispatch message for it
\* sent to a host, unless the host stops being ready first.
C5_Dispatched ==
    \A j \in 1..MaxSubmits :
        (j \in DOMAIN jobs /\ jobs[j].host_id = None /\ HostReady)
        ~> \/ (/\ j \in DOMAIN rec /\ rec[j].status = "running"
               /\ DispatchCount(j) = 1)
           \/ ~HostReady

InPending(j) == \E i \in DOMAIN pending : pending[i].job_id = j

\* C6: after submit_job has returned the new job, with the store reachable, the job is in
\* the pending list and has a queue record of status pending.
C6_SubmitEnqueues ==
    (resp.op = "submit_job" /\ resp.code = 200 /\ is_connected)
    => /\ InPending(resp.job)
       /\ resp.job \in DOMAIN rec
       /\ rec[resp.job].status = "pending"

\* C7: submit_job naming a host that is not registered, offline or unavailable answers
\* with a client error, creates no Job row and writes nothing to the queue.
C7_BadHostRejected ==
    [][\A u \in Users, h \in HostIds :
          (/\ submit_job(u, h)
           /\ (h \notin DOMAIN hosts \/ ~hosts[h].is_online \/ ~hosts[h].is_available))
          => /\ resp'.op = "submit_job" /\ resp'.code = 400
             /\ jobs' = jobs
             /\ pending' = pending /\ rec' = rec]_vars

C7_Witness ==
    /\ resp.op = "submit_job" /\ resp.code = 400
    /\ resp.host \in DOMAIN hosts
    /\ hosts[resp.host].is_online /\ ~hosts[resp.host].is_available

\* C8: when the server handles a job_result message, the Job row and the queue record of
\* that job both take the reported terminal status.
C8_ResultRecorded ==
    [][\A c \in ChanIds, m \in HostMsgs :
          (m.type = "job_result" /\ host_message(c, m))
          => /\ jobs'[m.job].status = m.status
             /\ m.job \in DOMAIN rec'
             /\ rec'[m.job].status = m.status]_vars

ExpectedStream(j) ==
    <<ObsStatusMsg(j, "running")>>
    \o [i \in 1..NumDemoLogs |-> ObsLogMsg(j, i)]
    \o <<ObsStatusMsg(j, "completed")>>
IsPrefix(a, b) == Len(a) <= Len(b) /\ SubSeq(b, 1, Len(a)) = a

\* C9: an observer of a job whose status is running is sent one status message, then the
\* log messages in order, then one status message with status completed, and nothing else.
C9_ObserverStream ==
    ostatus = "running"
    => /\ IsPrefix(osent, ExpectedStream(ojob))
       /\ opc = "done" => osent = ExpectedStream(ojob)

C9_Witness == ostatus = "running" /\ opc = "done"

\* C10: a host channel is registered only for the owner of the host; any other open
\* attempt is closed with a reason and leaves host_connections, host_users and every
\* is_online unchanged.
C10_OwnerOnly ==
    [][\A c \in ChanIds, tok \in Tokens, h \in HostIds :
          open_host_channel(c, tok, h)
          => IF tok \in Users /\ h \in DOMAIN hosts /\ hosts[h].owner_id = tok
             THEN host_connections'[h] = c /\ host_users'[h] = tok
             ELSE /\ cpc'[c] = "rejected" /\ cclose'[c] # None
                  /\ UNCHANGED <<host_connections, host_users>>
                  /\ \A x \in DOMAIN hosts : hosts'[x].is_online = hosts[x].is_online]_vars

C10_Witness ==
    \E c \in ChanIds :
        /\ cpc[c] = "rejected" /\ cclose[c] = "Host not found or access denied"
        /\ \E k \in ChanIds : cpc[k] = "open"

\* C11: register_host called by a user of role renter answers 403 (forbidden) and leaves
\* the Host rows as they were.
C11_RenterForbidden ==
    [][\A u \in Users, h \in HostIds :
          (UserRole[u] = "renter" /\ register_host(u, h))
          => /\ resp'.op = "register_host" /\ resp'.code = 403
             /\ hosts' = hosts]_vars

C11_Witness ==
    /\ resp.op = "register_host" /\ resp.code = 403
    /\ resp.host \notin DOMAIN hosts

\* C12: a callback whose state is older than StateMaxAge seconds, or whose signature is
\* not the HMAC under SECRET_KEY of its nonce and timestamp, is answered 400 and posts no
\* request to Google.
C12_StateCheckedFirst ==
    [][(/\ ncallbacks' = ncallbacks + 1
        /\ oret'.state.parts = 3 /\ oret'.state.ts.digits
        /\ \/ now - oret'.state.ts.value > StateMaxAge
           \/ oret'.state.sig # Hmac("SECRET_KEY", oret'.state.nonce, oret'.state.ts))
       => /\ oret'.code = 400
          /\ netreqs' = netreqs]_vars

C12_Witness ==
    /\ oret.detail = "State expired"
    /\ oret.state \in issued
    /\ oret.state.sig = Hmac("SECRET_KEY", oret.state.nonce, oret.state.ts)
    /\ netreqs.token = 0

StoreKeys == <<pending, rec, runningSet, completedSet, hostKeys, activeHosts>>

FailureValue(r, v) ==
    /\ ~v.raised
    /\ ~r.ok
    /\ r.op = "get_next_job" => r.job = 0
    /\ r.op = "get_job_status" => v.data = NoJob
    /\ r.op = "get_available_hosts" => v.hosts = {}
    /\ r.op = "get_queue_stats" => v.stats.error
    /\ r.op = "cleanup_expired_jobs" => v.count = 0

\* C13: while the client has no connection or the server does not answer, every queue
\* operation returns its failure value (False, None, the empty list, 0, the error dict),
\* raises nothing and leaves the store's keys as they were.
C13_UnreachableFails ==
    [][(~(is_connected /\ reachable) /\ reachable' = reachable)
       => /\ FailureValue(qret', qval')
          /\ UNCHANGED StoreKeys]_vars

C13_Witness ==
    /\ is_connected /\ ~reachable
    /\ qret.op = "get_queue_stats"
    /\ qval.stats = Stats(TRUE, 0, 0, 0, 0, "False")
    /\ Len(pending) > 0

\* the last queue call was op on job j and returned True
JustDid(op, j) == qret = QRet(op, j, TRUE)

SameFor(j) ==
    /\ rec' = rec
    /\ (j \in runningSet') = (j \in runningSet)
    /\ (j \in completedSet') = (j \in completedSet)

\* C14: complete_job(j, r) called again right after it returned True, and fail_job(j, e)
\* likewise, leaves the record (status, result, error) and j's membership in the running
\* and completed sets as the first call left them, whether or not a store call of the
\* second call raises.
C14_TerminalIdempotent ==
    [][(qret.ok /\ ncalls' # ncalls /\ qret'.op = qret.op /\ qret'.job = qret.job)
       => /\ \A r \in Results, f \in 0..4 :
               (/\ JustDid("complete_job", qret.job) /\ rec[qret.job].result = r
                /\ complete_job(qret.job, r, f))
               => SameFor(qret.job)
          /\ \A e \in Errors, f \in 0..3 :
               (/\ JustDid("fail_job", qret.job) /\ rec[qret.job].error_message = e
                /\ fail_job(qret.job, e, f))
               => SameFor(qret.job)]_vars

C14_Witness ==
    /\ JustDid("fail_job", 1)
    /\ rec[1].status = "failed" /\ rec[1].error_message = "e1"
    /\ ENABLED fail_job(1, "e1", 0)

\* C15: every step that runs disconnect_host(h) for a registered h leaves h out of
\* host_connections and host_users and the Host row offline; for an h already removed
\* it changes neither map and no Host row.
C15_DisconnectHost ==
    [][\A c \in ChanIds :
          (cpc[c] = "open" /\ cpc'[c] = "closed")
          => IF chost[c] \in DOMAIN host_connections
             THEN /\ chost[c] \notin DOMAIN host_connections'
                  /\ chost[c] \notin DOMAIN host_users'
                  /\ ~hosts'[chost[c]].is_online
             ELSE UNCHANGED <<host_connections, host_users, hosts>>]_vars

C15_Witness ==
    \E c1, c2 \in ChanIds :
        /\ cpc[c1] = "closed" /\ cpc[c2] = "open" /\ chost[c1] = chost[c2]
        /\ chost[c2] \notin DOMAIN host_connections
        /\ ENABLED host_disconnect(c2)

\* C16: send_to_host(h, m) returns False and sends nothing when h has no registered
\* channel, and returns True after appending m to what was sent on h's channel.
C16_SendReturnsBool ==
    [][\A h \in HostIds, j \in JobIds :
          call_send_to_host(h, Msg("job", j))
          => IF h \in DOMAIN host_connections
             THEN /\ mret'.val = "True"
                  /\ csent'[host_connections[h]]
                        = Append(csent[host_connections[h]], Msg("job", j))
             ELSE /\ mret'.val = "False"
                  /\ csent' = csent]_vars

\* C17: a host with a registered channel whose last heartbeat is more than HostKeyTTL
\* seconds old is eventually offline.
C17_HeartbeatExpiry ==
    \A h \in HostIds :
        (/\ h \in DOMAIN host_connections /\ h \in DOMAIN hosts
         /\ now - hosts[h].last_heartbeat > HostKeyTTL)
        ~> (h \in DOMAIN hosts /\ ~hosts[h].is_online)

HostMsg(t) == [type |-> t, job |-> 0, status |-> None]

\* C18: a message of unknown type received on a host channel changes no registration and
\* no Host row, is answered with nothing and leaves the handler in its receive loop.
C18_UnknownIgnored ==
    [][\A c \in ChanIds :
          host_message(c, HostMsg("other"))
          => /\ UNCHANGED <<host_connections, host_users, hosts, csent>>
             /\ cpc'[c] = "open"]_vars

C18_Witness ==
    \E c \in ChanIds :
        /\ cpc[c] = "open" /\ crecv[c] = 1 /\ csent[c] = <<Msg("welcome", 0)>>
        /\ chost[c] \in DOMAIN host_connections /\ host_connections[chost[c]] = c
        /\ hosts[chost[c]].is_online
        /\ ENABLED host_message(c, HostMsg("heartbeat"))

Reply(m) ==
    IF m.type = "heartbeat" THEN <<[type |-> "heartbeat_ack", job |-> 0]>>
    ELSE IF m.type = "job_result" THEN <<[type |-> "job_ack", job |-> 0]>>
    ELSE << >>

\* C19: what the server sends on a host channel is welcome when the channel is opened,
\* then one heartbeat_ack for each heartbeat received and one job_ack for each job_result
\* received, in the order received, and nothing else.
C19_HostReplies ==
    [][\A c \in ChanIds :
          /\ (cpc[c] = "new" /\ cpc'[c] = "open")
             => csent'[c] = <<[type |-> "welcome", job |-> 0]>>
          /\ \A m \in HostMsgs : host_message(c, m) => csent'[c] = csent[c] \o Reply(m)
          /\ (cpc[c] # "new" /\ crecv'[c] = crecv[c]) => csent'[c] = csent[c]
          /\ cpc'[c] \in {"new", "rejected"} => csent'[c] = << >>]_vars

C19_Witness ==
    \E c \in ChanIds :
        csent[c] = <<[type |-> "welcome", job |-> 0], [type |-> "heartbeat_ack", job |-> 0],
                     [type |-> "job_ack", job |-> 0]>>

C21_JobReadAccess ==
    (resp.op = "get_job_status" /\ resp.job \in DOMAIN jobs) =>
        LET u == resp.user
            j == resp.job
            allowed == \/ jobs[j].renter_id = u
                       \/ UserRole[u] = "admin"
                       \/ /\ UserRole[u] = "host"
                          /\ jobs[j].host_id \in DOMAIN hosts
                          /\ hosts[jobs[j].host_id].owner_id = u
        IN  /\ resp.code = 200 <=> allowed
            /\ resp.code = 403 <=> ~allowed

\* a user of role host who is not the renter has read a job assigned to a host they own
C21_Witness ==
    /\ resp.op = "get_job_status" /\ resp.code = 200
    /\ resp.job \in DOMAIN jobs
    /\ jobs[resp.job].renter_id # resp.user
    /\ UserRole[resp.user] = "host"

\* C22: a job observer channel is accepted and sent its first status message only for a
\* token that authenticates as a user who is the job's renter or an admin; an open with
\* no token, an invalid token, a job that does not exist or any other user is closed with
\* a reason and sends nothing.
C22_ObserverAuthorised ==
    [][\A tok \in Tokens, j \in 0..1 :
          obs_open(tok, j)
          => LET authorised == /\ tok \in Users
                               /\ j \in DOMAIN jobs
                               /\ (jobs[j].renter_id = tok \/ UserRole[tok] = "admin")
             IN  /\ opc' \in {"logs", "done"} <=> authorised
                 /\ osent' # << >> => authorised
                 /\ ~authorised => /\ opc' = "rejected"
                                   /\ oclose' # None
                                   /\ osent' = << >>]_vars

\* an open attempt on the existing job was refused for lack of access and sent nothing
C22_Witness ==
    /\ opc = "rejected"
    /\ oclose = "Job not found or access denied"
    /\ osent = << >>

\* the user as the API reports them after the last account request
Reported == resp.body

\* C23: whatever role switches were requested, no user is reported with active_role host
\* and is_host false.
C23_HostModeNeedsHost ==
    (resp.op \in {"update_active_role", "get_current_user_info"} /\ resp.code = 200)
    => (Reported.active_role = "host" => Reported.is_host)

\* a switch to host was requested by a user who owns a registered host, and was refused
C23_Witness ==
    /\ resp.op = "update_active_role"
    /\ resp.requested = "host"
    /\ resp.code # 200
    /\ \E h \in DOMAIN hosts : hosts[h].owner_id = resp.user

\* C24: a switch to host by a user whose is_host is false is answered 403 (forbidden), not
\* with an internal error, and the user's active_role stays what it was.
C24_SwitchForbidden ==
    (/\ resp.op = "update_active_role"
     /\ resp.requested = "host"
     /\ ~UserResponse(UserRow(resp.user)).is_host)
    => /\ resp.code = 403
       /\ UserResponse(UserRow(resp.user)).active_role = "renter"

C26_PulledStaysPending ==
    (qret = QRet("get_next_job", qret.job, TRUE) /\ activeHosts = {})
    => /\ InPending(qret.job)
       /\ qret.job \in DOMAIN rec
       /\ rec[qret.job].status = "pending"

\* C27: every host id get_available_hosts returns has, at the moment of the call, a
\* status record that has not expired and that says is_online true.
C27_AvailableNotExpired ==
    [][get_available_hosts(StoreFault)
       => \A h \in qval'.hosts :
             h \in DOMAIN hostKeys /\ hostKeys[h].is_online]_vars

\* C28: cleanup_expired_jobs removes from active_hosts only host ids whose status record
\* no longer exists, returns the number of ids it removed, and leaves the job records, the
\* pending list and the running and completed sets as they were.
C28_SweepCount ==
    [][\A f \in 0..2, S \in SUBSET HostIds :
          cleanup_expired_jobs(f, S)
          => /\ activeHosts' \subseteq activeHosts
             /\ (activeHosts \ activeHosts') \subseteq ExpiredHosts
             /\ qval'.count = Cardinality(activeHosts \ activeHosts')
             /\ UNCHANGED <<rec, pending, runningSet, completedSet>>]_vars

RECURSIVE RepliesTo(_, _)
RepliesTo(hist, n) == IF n = 0 THEN << >> ELSE RepliesTo(hist, n - 1) \o Reply(hist[n])
Handled(c) == Len(cin[c].hist) - Len(cin[c].queue)

\* C29: on each host channel the texts are handled in the order they arrived, each reply
\* sent before the next text is taken: what the server has sent after welcome is the replies
\* to the texts handled so far, which are the first ones that arrived, in arrival order.
C29_ArrivalOrder ==
    \A c \in ChanIds :
        cpc[c] \in {"open", "closed"}
        => /\ cin[c].queue = SubSeq(cin[c].hist, Handled(c) + 1, Len(cin[c].hist))
           /\ csent[c] = <<[type |-> "welcome", job |-> 0]>> \o RepliesTo(cin[c].hist, Handled(c))

\* a job_result and then a heartbeat arrived on one channel and both have been handled
C29_Witness ==
    \E c \in ChanIds :
        /\ Len(cin[c].hist) = 2 /\ cin[c].queue = << >>
        /\ cin[c].hist[1].type = "job_result" /\ cin[c].hist[2].type = "heartbeat"
        /\ Len(csent[c]) = 3

\* C30: the disconnect of a host channel, whether or not the host holds a running job,
\* leaves every Job row, every queue record, the pending list and the running and completed
\* sets as they were; afterwards the host's is_online is false and a send_to_host for that
\* host puts nothing on any channel.
C30_DisconnectLeavesJobs ==
    [][\A c \in ChanIds :
          host_disconnect(c)
          => /\ UNCHANGED <<jobs, rec, pending, runningSet, completedSet>>
             /\ ~hosts'[chost[c]].is_online
             /\ \A j \in JobIds : (send_to_host(chost[c], Msg("job", j)))' = csent']_vars

\* a connected host with a running Job row and a running queue record on it, about to
\* disconnect
C30_Witness ==
    \E c \in ChanIds :
        /\ cpc[c] = "open"
        /\ jobs[0].status = "running" /\ jobs[0].host_id = chost[c]
        /\ \E j \in runningSet : rec[j].status = "running" /\ rec[j].host_id = chost[c]
        /\ ENABLED host_disconnect(c)

\* C31: an enqueue_job that returns True has put the job at the new end of the pending
\* list and written a record that get_job_status reads back with status pending; a
\* get_next_job that returns a job has removed the oldest entry of the pending list,
\* returns that entry and leaves its record with status assigned; get_next_job on an
\* empty list returns None and changes neither the list nor any record.
C31_EnqueueThenPull ==
    [][/\ \A j \in JobIds, f \in 0..2 :
             (enqueue_job(j, f) /\ qret'.ok)
             => /\ Len(pending') = Len(pending) + 1
                /\ pending'[1].job_id = j
                /\ SubSeq(pending', 2, Len(pending')) = pending
                /\ j \in DOMAIN rec' /\ rec'[j].status = "pending"
       /\ \A j \in JobIds :
             (get_job_status(j, 0) /\ InPending(j) /\ j \in DOMAIN rec)
             => qval'.data.job_id = j /\ qval'.data.status = "pending"
       /\ \A f \in 0..2 :
             get_next_job(f)
             => /\ qret'.ok
                   => /\ Len(pending) > 0
                      /\ qret'.job = pending[Len(pending)].job_id
                      /\ pending' = SubSeq(pending, 1, Len(pending) - 1)
                      /\ rec'[qret'.job].status = "assigned"
                /\ Len(pending) = 0
                   => /\ ~qret'.ok
                      /\ UNCHANGED <<pending, rec, runningSet, completedSet>>]_vars

\* the older of two enqueued jobs has been pulled and is assigned, the newer one waits
C31_Witness ==
    /\ qret = QRet("get_next_job", 1, TRUE)
    /\ Len(pending) = 1 /\ pending[1].job_id = 2
    /\ rec[1].status = "assigned" /\ rec[2].status = "pending"

\* C32: when a host channel is opened and accepted for a host_id that already has a
\* registered channel, the newer channel and its user take the place of the older ones in
\* host_connections and host_users, and the host is online.
C32_LastRegistrationWins ==
    [][\A c \in ChanIds, tok \in Tokens, h \in HostIds :
          (/\ h \in DOMAIN host_connections
           /\ open_host_channel(c, tok, h)
           /\ cpc'[c] = "open")
          => /\ host_connections[h] # c
             /\ host_connections'[h] = c
             /\ host_users'[h] = tok
             /\ hosts'[h].is_online]_vars

\* two channels of one host are open and the later one is the registered one
C32_Witness ==
    \E c1, c2 \in ChanIds :
        /\ c1 < c2 /\ cpc[c1] = "open" /\ cpc[c2] = "open"
        /\ chost[c1] = chost[c2]
        /\ host_connections[chost[c2]] = c2
        /\ host_users[chost[c2]] = cuser[c2]

\* C33: for every job that has a queue record, the job id is in the running set exactly
\* when the record's status is running and in the completed set exactly when it is
\* completed, and it is never in both sets.
C33_SetsMirrorStatus ==
    \A j \in DOMAIN rec :
        /\ j \in runningSet <=> rec[j].status = "running"
        /\ j \in completedSet <=> rec[j].status = "completed"
        /\ ~(j \in runningSet /\ j \in completedSet)

\* C34: between handler steps the hosts whose is_online is true are exactly the host ids
\* that have an entry in host_connections.
C34_OnlineIffConnected ==
    {h \in DOMAIN hosts : hosts[h].is_online} = DOMAIN host_connections

\* C35: after an enqueue_job that returned False the job is not in the pending list and
\* has no queue record.
C35_FailedEnqueueLeavesNothing ==
    (qret.op = "enqueue_job" /\ ~qret.ok)
    => /\ ~InPending(qret.job)
       /\ qret.job \notin DOMAIN rec

\* C36: every entry get_next_job removes from the pending list is returned to the caller:
\* a call that returns None leaves the pending list as it was, and a call that returns a
\* job has removed that job and no other.
C36_PullLosesNothing ==
    [][\A f \in 0..2 :
          get_next_job(f)
          => IF qret'.ok
             THEN /\ Len(pending') = Len(pending) - 1
                  /\ \A i \in DOMAIN pending' : pending'[i].job_id # qret'.job
             ELSE pending' = pending]_vars

\* C37: start_job, complete_job and fail_job for a job id that has no queue record, because
\* it was never enqueued or its key has expired, return False, create no record and leave
\* the pending list and the running and completed sets as they were.
C37_NoRecordNoChange ==
    [][\A j \in JobIds :
          j \notin DOMAIN rec
          => /\ \A h \in HostIds, f \in 0..3 :
                   start_job(j, h, f)
                   => ~qret'.ok /\ UNCHANGED <<rec, pending, runningSet, completedSet>>
             /\ \A r \in Results, f \in 0..4 :
                   complete_job(j, r, f)
                   => ~qret'.ok /\ UNCHANGED <<rec, pending, runningSet, completedSet>>
             /\ \A e \in Errors, f \in 0..3 :
                   fail_job(j, e, f)
                   => ~qret'.ok /\ UNCHANGED <<rec, pending, runningSet, completedSet>>]_vars

\* a job that was started and whose key has expired since is still in the running set, and
\* a report on it can be made
C37_Witness ==
    \E j \in JobIds :
        /\ j \in runningSet
        /\ j \notin DOMAIN rec
        /\ ENABLED complete_job(j, "r1", 0)

\* the host a step of channel c is about: the one being connected, or the connected one
StepHost(c) == IF cpc[c] = "new" THEN chost'[c] ELSE chost[c]

\* C38: a step of host A's channel, be it the open, a received message or the disconnect,
\* leaves the host_connections and host_users entries and the Host row (is_online and
\* last_heartbeat included) of every other host as they were.
C38_OtherHostsUntouched ==
    [][\A c \in ChanIds :
          (cpc'[c] # cpc[c] \/ crecv'[c] # crecv[c])
          => \A b \in DOMAIN hosts :
                b # StepHost(c)
                => /\ hosts'[b] = hosts[b]
                   /\ (b \in DOMAIN host_connections') = (b \in DOMAIN host_connections)
                   /\ b \in DOMAIN host_connections
                      => host_connections'[b] = host_connections[b]
                   /\ (b \in DOMAIN host_users') = (b \in DOMAIN host_users)
                   /\ b \in DOMAIN host_users => host_users'[b] = host_users[b]]_vars

\* two hosts of one owner are connected on two channels, and the first has had a heartbeat
\* handled after the clock moved
C38_Witness ==
    \E c1, c2 \in ChanIds :
        /\ cpc[c1] = "open" /\ cpc[c2] = "open"
        /\ chost[c1] # chost[c2]
        /\ hosts[chost[c1]].owner_id = hosts[chost[c2]].owner_id
        /\ hosts[chost[c1]].last_heartbeat > hosts[chost[c2]].last_heartbeat
        /\ crecv[c1] > 0

\* C39: every status message with status completed that an observer has been sent is
\* about a job whose Job row has status completed.
C39_CompletedIsTrue ==
    \A i \in DOMAIN osent :
        (osent[i].type = "status" /\ osent[i].status = "completed")
        => jobs[osent[i].job].status = "completed"

\* C40: host_connections and host_users have the same key set: a host_id has a
\* registered channel exactly when it has a recorded authenticated user.
C40_SameKeys == DOMAIN host_connections = DOMAIN host_users

\* a channel has been disconnected and removed its host's entries while another host
\* still has a channel and a user registered
C40_Witness ==
    /\ \E c \in ChanIds : cpc[c] = "closed" /\ chost[c] \notin DOMAIN host_connections
    /\ DOMAIN host_users # {}

====
